---- MODULE Spec2Model ----
(***************************************************************************)
(* FlightTool: the CSV import route, the flight store and the statistics   *)
(* query of server/routes.ts and server/storage.ts.                        *)
(*                                                                         *)
(* A text (a JavaScript string) is a sequence of symbols.  The symbols the *)
(* airport-code pattern looks at are single characters; a run of other     *)
(* characters may be written as one longer symbol, which is neither "("    *)
(* nor "/" nor a letter.  The empty string is <<>>.                        *)
(***************************************************************************)
EXTENDS Integers, Sequences, FiniteSets, TLC

\* ------------------------------------------------------------------ bounds
\* longest uploaded file, in data rows
MaxRows == 2
\* longest extractor input, in segments
MaxSegs == 3
\* most flights of one airline, and of a second airline, in a stored collection
\* the statistics are computed from
MaxFirstAirline == 7
MaxSecondAirline == 3

\* ------------------------------------------------------- JavaScript values
\* the value of a missing property (row.X when the file has no column X)
Undefined == <<"undefined">>
\* null
Null == <<"null">>
\* the exception a property access on undefined raises
TypeError == <<"TypeError">>
\* the time value of an Invalid Date (NaN)
InvalidDate == -1

\* ------------------------------------------------------------ the extractor
UpperLetters ==
  {"A","B","C","D","E","F","G","H","I","J","K","L","M",
   "N","O","P","Q","R","S","T","U","V","W","X","Y","Z"}

\* the character class of the pattern, widened to both cases
IsCodeLetterAnyCase(ch) ==
  ch \in UpperLetters \cup {"a","b","c","d","e","f","g","h","i","j","k","l","m",
                            "n","o","p","q","r","s","t","u","v","w","x","y","z"}

\* [A-Z]
IsCodeLetter(ch) == ch \in UpperLetters

\* the pattern \(([A-Z]{3})\/ matches s at position i
MatchAt(s, i) ==
  /\ i >= 1
  /\ i + 4 <= Len(s)
  /\ s[i] = "("
  /\ IsCodeLetter(s[i+1])
  /\ IsCodeLetter(s[i+2])
  /\ IsCodeLetter(s[i+3])
  /\ s[i+4] = "/"

\* a scan that keeps the last match instead of stopping at the first
RECURSIVE LastMatchFrom(_, _)
LastMatchFrom(s, i) ==
  IF i > Len(s) THEN 0
  ELSE LET later == LastMatchFrom(s, i + 1)
       IN  IF later # 0 THEN later ELSE IF MatchAt(s, i) THEN i ELSE 0

\* String.prototype.match with a non-global pattern: the leftmost match at or
\* after position i, 0 when there is none
RECURSIVE FirstMatchFrom(_, _)
FirstMatchFrom(s, i) ==
  IF i > Len(s) THEN 0
  ELSE IF MatchAt(s, i) THEN i
  ELSE FirstMatchFrom(s, i + 1)

\* extractAirportCode: match[1] of the leftmost match, null without a match;
\* airportString.match raises a TypeError when airportString is undefined
extractAirportCode(airportString) ==
  IF airportString = Undefined THEN TypeError
  ELSE LET i == FirstMatchFrom(airportString, 1)
       IN  IF i = 0 THEN Null
           ELSE SubSeq(airportString, i + 1, i + 3)

\* ------------------------------------------------------------ uploaded files
\* the header names of the CSV format (README.md, "CSV Import Format")
Columns ==
  {"Date", "Flight number", "From", "To", "Dep time", "Arr time", "Duration",
   "Airline", "Aircraft", "Registration", "Seat number", "Seat type",
   "Flight class", "Flight reason", "Note"}

RequiredColumns == {"Date", "Flight number", "From", "To", "Airline"}

Blank == <<>>

TextFRA == <<"Frankfurt ", "(", "F", "R", "A", "/", "EDDF", ")">>
TextLAX == <<"Los Angeles ", "(", "L", "A", "X", "/", "KLAX", ")">>
TextUnknown == <<"Unknown Field">>

\* a complete row: Frankfurt to Los Angeles with Lufthansa
RowLH ==
  [col \in Columns |->
     CASE col = "Date" -> <<"2024-06-01">>
       [] col = "Flight number" -> <<"LH452">>
       [] col = "From" -> TextFRA
       [] col = "To" -> TextLAX
       [] col = "Dep time" -> <<"10:05">>
       [] col = "Duration" -> <<"11:30">>
       [] col = "Airline" -> <<"Lufthansa (LH/DLH)">>
       [] col = "Aircraft" -> <<"Airbus A380">>
       [] col = "Seat number" -> <<"23A">>
       [] col = "Flight class" -> <<"Economy">>
       [] OTHER -> Blank]

\* a complete row whose origin carries no code
RowBA ==
  [col \in Columns |->
     CASE col = "Date" -> <<"2025-03-02">>
       [] col = "Flight number" -> <<"BA117">>
       [] col = "From" -> TextUnknown
       [] col = "To" -> TextFRA
       [] col = "Airline" -> <<"British Airways (BA/BAW)">>
       [] col = "Note" -> <<"window seat">>
       [] OTHER -> Blank]

BaseRows == {RowLH, RowBA}

\* the sequences over S of length at most n
SeqsUpTo(S, n) == UNION {[1..k -> S] : k \in 0..n}

\* a line with two cells only: the parser sets no property for the others
ShortRow(row) ==
  [col \in Columns |->
     IF col \in {"Date", "Flight number"} THEN row[col] ELSE Undefined]

\* the ways one row of a file can be off: a required cell left blank, a date
\* no Date can parse, a line cut short
RowDefects(row) ==
  {[row EXCEPT ![col] = Blank] : col \in RequiredColumns}
    \cup {[row EXCEPT !["Date"] = <<"not a date">>], ShortRow(row)}

\* the header rows: the full header, or the full header less one required name
Headers == {Columns} \cup {Columns \ {col} : col \in RequiredColumns}

\* the uploaded files: a header row and up to MaxRows data rows, sound except
\* for at most one thing: one defective row or one missing header name
Files ==
  {[kind |-> "csv", header |-> h, rows |-> rs] :
     h \in Headers, rs \in SeqsUpTo(BaseRows, MaxRows)}
    \cup
  UNION {UNION {{[kind |-> "csv", header |-> Columns,
                   rows |-> [rs EXCEPT ![i] = d]] : d \in RowDefects(rs[i])} :
                i \in 1..Len(rs)} :
         rs \in SeqsUpTo(BaseRows, MaxRows)}

\* a request without the csvFile part
NoFile == [kind |-> "none", header |-> {}, rows |-> <<>>]
\* an upload on which the parser stream emits 'error'
BadFile == [kind |-> "bad", header |-> {}, rows |-> <<>>]

\* csv(): one object per data row, keyed by the header names of the file
CsvParse(file) ==
  [i \in 1..Len(file.rows) |->
     [col \in Columns |->
        IF col \in file.header THEN file.rows[i][col] ELSE Undefined]]

\* the dates the model's files use, as day numbers yyyymmdd
KnownDates ==
  [t \in {<<"2024-01-15">>, <<"2024-06-01">>, <<"2025-03-02">>} |->
     CASE t = <<"2024-01-15">> -> 20240115
       [] t = <<"2024-06-01">> -> 20240601
       [] OTHER -> 20250302]

\* new Date(text): the time value, Invalid Date for undefined, "" and garbage
NewDate(text) ==
  IF text \in DOMAIN KnownDates THEN KnownDates[text] ELSE InvalidDate

\* ------------------------------------------------------------------- state
Users == {"u1", "u2"}
\* the requests a behaviour serves, each at most once, named in arrival order
Calls == {"c1", "c2"}
Earlier(c) == IF c = "c2" THEN {"c1"} ELSE {}
\* the two users are alike, so the first request is taken to be u1's
FirstUsers(c) == IF c = "c1" THEN {"u1"} ELSE Users

VARIABLES
  store,    \* the flights table, in insertion order
  nextId,   \* the next identifier the table assigns
  upload,   \* the CSV file the clients upload in this behaviour
  build,    \* which of the repository's two getFlightStats is deployed
  call,     \* per request: the handler's locals, its position and its responses
  text,     \* an input of the code extractor
  code,     \* the extractor's result for text, <<"pending">> before it ran
  browser   \* the client: location, auth query, component state, query cache

vars == <<store, nextId, upload, build, call, text, code, browser>>

Pending == <<"pending">>

\* the user object the auth query holds for a logged-in user
LoggedIn == <<"user">>
\* useState<File | null>(null): no file selected
NoUpload == [name |-> "", type |-> ""]
\* the browser of a behaviour in which no client runs
ClosedBrowser ==
  [href |-> "closed", location |-> "/",
   auth |-> [isLoading |-> TRUE, user |-> Null, error |-> Null],
   effectRan |-> FALSE, toasts |-> {}, timers |-> 0,
   uploadedFile |-> NoUpload,
   mutation |-> [m \in {"import", "create"} |-> [status |-> "idle", inFlight |-> 0]],
   invalidated |-> {}, trace |-> <<>>]

IdleCall ==
  [kind |-> "idle", pc |-> "idle", userId |-> "", file |-> NoFile,
   csvData |-> <<>>, idx |-> 0, awaiting |-> <<>>, flights |-> <<>>,
   res |-> <<>>, log |-> <<>>, faulted |-> FALSE, after |-> {},
   count0 |-> 0, year |-> 0, session |-> "", param |-> <<>>, body |-> <<>>,
   acc |-> [total |-> 0, airports |-> {}, airlines |-> {}, recent |-> <<>>,
            top |-> <<>>]]

\* ------------------------------------------------------------ the flights table
\* routes.ts 135-136: building the object raises when row.From or row.To is
\* undefined
FlightDataThrows(row) ==
  \/ extractAirportCode(row["From"]) = TypeError
  \/ extractAirportCode(row["To"]) = TypeError

\* routes.ts 130-149: the object the loop builds for one row
FlightData(row, userId) ==
  [date |-> NewDate(row["Date"]),
   flightNumber |-> row["Flight number"],
   fromAirport |-> row["From"],
   toAirport |-> row["To"],
   fromAirportCode |-> extractAirportCode(row["From"]),
   toAirportCode |-> extractAirportCode(row["To"]),
   departureTime |-> row["Dep time"],
   arrivalTime |-> row["Arr time"],
   duration |-> row["Duration"],
   airline |-> row["Airline"],
   aircraftType |-> row["Aircraft"],
   registration |-> row["Registration"],
   seatNumber |-> row["Seat number"],
   seatType |-> row["Seat type"],
   flightClass |-> row["Flight class"],
   flightReason |-> row["Flight reason"],
   notes |-> row["Note"],
   userId |-> userId]

\* the insert is rejected: a timestamp column cannot take an Invalid Date, and
\* a notNull() column without default cannot take a missing value
InsertRejected(fd) ==
  \/ fd.date = InvalidDate
  \/ fd.flightNumber \in {Undefined, Null}
  \/ fd.fromAirport \in {Undefined, Null}
  \/ fd.toAirport \in {Undefined, Null}
  \/ fd.airline \in {Undefined, Null}

\* a column without a default: a missing value is stored as null
WithNull(v) == IF v = Undefined THEN Null ELSE v

\* a column with default(""): a missing value takes the default, null stays
WithDefault(v) == IF v = Undefined THEN Blank ELSE v

\* the row the insert stores and returns
InsertedFlight(fd, id) ==
  [id |-> id,
   userId |-> fd.userId,
   date |-> fd.date,
   flightNumber |-> fd.flightNumber,
   fromAirport |-> fd.fromAirport,
   toAirport |-> fd.toAirport,
   fromAirportCode |-> WithDefault(fd.fromAirportCode),
   toAirportCode |-> WithDefault(fd.toAirportCode),
   departureTime |-> WithDefault(fd.departureTime),
   arrivalTime |-> WithDefault(fd.arrivalTime),
   duration |-> WithDefault(fd.duration),
   airline |-> fd.airline,
   aircraftType |-> WithDefault(fd.aircraftType),
   registration |-> WithDefault(fd.registration),
   seatNumber |-> WithDefault(fd.seatNumber),
   seatType |-> WithDefault(fd.seatType),
   flightClass |-> WithDefault(fd.flightClass),
   flightReason |-> WithDefault(fd.flightReason),
   notes |-> WithDefault(fd.notes)]

\* an insert that overwrites the owner's row with the same flight number
CreateFlightUpsert(table, fd, id) ==
  IF \E i \in 1..Len(table) :
       table[i].userId = fd.userId /\ table[i].flightNumber = fd.flightNumber
  THEN [i \in 1..Len(table) |->
          IF table[i].userId = fd.userId /\ table[i].flightNumber = fd.flightNumber
          THEN InsertedFlight(fd, id)
          ELSE table[i]]
  ELSE Append(table, InsertedFlight(fd, id))

\* the insert that drops a row the table already holds for the owner
CreateFlightDedup(table, fd, id) ==
  IF \E i \in 1..Len(table) :
       [table[i] EXCEPT !.id = id] = InsertedFlight(fd, id)
  THEN table
  ELSE Append(table, InsertedFlight(fd, id))

\* createFlight: db.insert(flights).values(flight).returning()
CreateFlight(table, fd, id) == Append(table, InsertedFlight(fd, id))

\* the query without its where clause
FlightsOfAnyone(table, userId) == table

\* where eq(flights.userId, userId)
FlightsOf(table, userId) ==
  SelectSeq(table, LAMBDA f : f.userId = userId)

\* --------------------------------------------- POST /api/flights/import-csv
\* a handler that sends its response twice
RespondTwice(cl, r) == [cl EXCEPT !.pc = "done", !.res = Append(Append(@, r), r)]

\* res.json(...) as the handler's last statement
Respond(cl, r) == [cl EXCEPT !.pc = "done", !.res = Append(@, r)]

\* a catch block that undoes the inserts of the call
RolledBack(table, cl) ==
  SelectSeq(table, LAMBDA f : \A i \in 1..Len(cl.flights) : cl.flights[i] # f.id)

\* routes.ts 159-162: the catch block logs and answers 500; the table keeps
\* what the loop has inserted
StoreAfterCatch(table, cl) == table

\* a loop that stops one row early
LoopDoneEarly(cl) == cl.idx >= Len(cl.csvData)

\* for (const row of csvData): no row is left
LoopDone(cl) == cl.idx > Len(cl.csvData)

\* the loop position instead of the number of flights created
ImportedLoopIndex(cl) == cl.idx

\* flights.length
ImportedCount(cl) == Len(cl.flights)

\* the request arrives with the file f for the logged-in user u; without a file
\* the handler answers 400, otherwise it pipes the buffer into the parser, whose
\* 'data' events fill csvData
ImportRequest(c, u, f) ==
  /\ call[c].kind = "idle"
  /\ \A d \in Earlier(c) : call[d].kind # "idle"
  /\ u \in FirstUsers(c)
  /\ LET cl == [call[c] EXCEPT
                  !.kind = "import", !.userId = u, !.file = f,
                  !.after = {d \in Calls : call[d].pc = "done"},
                  !.count0 = Len(FlightsOf(store, u))]
     IN  call' = [call EXCEPT ![c] =
           IF f.kind = "none"
           THEN Respond(cl, [status |-> 400, message |-> "No CSV file provided"])
           ELSE [cl EXCEPT !.pc = "piped", !.csvData = CsvParse(f)]]
  /\ UNCHANGED <<store, nextId, upload, build, text, code, browser>>

\* .on('error'): the parser stream fails
ImportStreamError(c) ==
  /\ call[c].kind = "import"
  /\ call[c].pc = "piped"
  /\ call[c].file.kind = "bad"
  /\ call' = [call EXCEPT ![c] =
       Respond(@, [status |-> 400, message |-> "Invalid CSV format"])]
  /\ UNCHANGED <<store, nextId, upload, build, text, code, browser>>

\* .on('end'): the handler starts the loop over csvData
ImportStreamEnd(c) ==
  /\ call[c].kind = "import"
  /\ call[c].pc = "piped"
  /\ call[c].file.kind = "csv"
  /\ call' = [call EXCEPT ![c] = [@ EXCEPT !.pc = "loop", !.idx = 1]]
  /\ UNCHANGED <<store, nextId, upload, build, text, code, browser>>

\* one turn of the loop up to its await: after the last row the handler sends
\* the success response; a row whose object cannot be built lands in the catch
\* block; otherwise the handler calls storage.createFlight and waits
ImportLoop(c) ==
  /\ call[c].kind = "import"
  /\ call[c].pc = "loop"
  /\ LET cl == call[c]
     IN  IF LoopDone(cl)
         THEN /\ call' = [call EXCEPT ![c] =
                   Respond([cl EXCEPT !.log = Append(@, <<"respond", 0>>)],
                           [status |-> 200, message |-> "Successfully imported",
                            flights |-> ImportedCount(cl)])]
              /\ store' = store
         ELSE IF FlightDataThrows(cl.csvData[cl.idx])
         THEN /\ call' = [call EXCEPT ![c] =
                   Respond(cl, [status |-> 500,
                                message |-> "Failed to process CSV data"])]
              /\ store' = StoreAfterCatch(store, cl)
         ELSE /\ call' = [call EXCEPT ![c] =
                   [cl EXCEPT
                      !.pc = "await",
                      !.awaiting = <<FlightData(cl.csvData[cl.idx], cl.userId)>>,
                      !.log = Append(@, <<"begin", cl.idx>>)]]
              /\ store' = store
  /\ UNCHANGED <<nextId, upload, build, text, code, browser>>

\* the awaited storage.createFlight settles: a rejected insert lands in the
\* catch block, an accepted one stores the flight, which the handler pushes on
\* flights before the next turn
CreateFlightSettles(c) ==
  /\ call[c].kind = "import"
  /\ call[c].pc = "await"
  /\ LET cl == call[c]
         fd == cl.awaiting[1]
     IN  IF InsertRejected(fd)
         THEN /\ call' = [call EXCEPT ![c] =
                   Respond([cl EXCEPT !.awaiting = <<>>],
                           [status |-> 500,
                            message |-> "Failed to process CSV data"])]
              /\ store' = StoreAfterCatch(store, cl)
              /\ nextId' = nextId
         ELSE /\ store' = CreateFlight(store, fd, nextId)
              /\ nextId' = nextId + 1
              /\ call' = [call EXCEPT ![c] =
                   [cl EXCEPT !.pc = "loop", !.awaiting = <<>>,
                              !.flights = Append(@, nextId),
                              !.idx = @ + 1,
                              !.log = Append(@, <<"end", cl.idx>>)]]
  /\ UNCHANGED <<upload, build, text, code, browser>>

\* the database fails under the awaited insert (connection lost, ...): the
\* promise rejects and nothing is stored
CreateFlightFault(c) ==
  /\ call[c].kind = "import"
  /\ call[c].pc = "await"
  /\ call' = [call EXCEPT ![c] =
       Respond([@ EXCEPT !.awaiting = <<>>, !.faulted = TRUE],
               [status |-> 500, message |-> "Failed to process CSV data"])]
  /\ store' = StoreAfterCatch(store, call[c])
  /\ UNCHANGED <<nextId, upload, build, text, code, browser>>

\* ------------------------------------------------------------ GET /api/stats
\* the repository holds getFlightStats twice: server/storage.ts counts the
\* free-text airport names and returns no monthly activity, the other file
\* (part_009) counts the airport codes and queries the monthly activity
Builds == {"storage.ts", "part_009"}

\* the years the statistics may be asked in
Years == {2024, 2025}

MonthLabels ==
  <<"Jan", "Feb", "Mar", "Apr", "May", "Jun",
    "Jul", "Aug", "Sep", "Oct", "Nov", "Dec">>

YearOf(date) == date \div 10000
MonthOf(date) == (date \div 100) % 100

MinOf(a, b) == IF a < b THEN a ELSE b

\* the count without the where clause
CountAllFlights(table, userId) == Len(table)

\* count(distinct flight_number) in place of count(*)
CountFlightNumbers(table, userId) ==
  LET fs == FlightsOf(table, userId)
  IN  Cardinality({fs[i].flightNumber : i \in 1..Len(fs)})

\* select count(*) from flights where user_id = userId
CountFlights(table, userId) == Len(FlightsOf(table, userId))

\* if (result.fromAirport), if (result.toAirport)
Truthy(v) == v \notin {Null, Undefined, Blank}

\* the distinct code pairs of the owner, folded into the set uniqueAirports
UniqueAirports(table, userId) ==
  LET fs == FlightsOf(table, userId)
  IN  {fs[i].fromAirportCode : i \in {j \in 1..Len(fs) : Truthy(fs[j].fromAirportCode)}}
        \cup
      {fs[i].toAirportCode : i \in {j \in 1..Len(fs) : Truthy(fs[j].toAirportCode)}}

\* storage.ts 156-168: the distinct name pairs of the owner, folded into the
\* set uniqueAirports
UniqueAirportNames(table, userId) ==
  LET fs == FlightsOf(table, userId)
  IN  {fs[i].fromAirport : i \in {j \in 1..Len(fs) : Truthy(fs[j].fromAirport)}}
        \cup
      {fs[i].toAirport : i \in {j \in 1..Len(fs) : Truthy(fs[j].toAirport)}}

\* the airports query of the build b
AirportsVisited(b, table, userId) ==
  IF b = "storage.ts" THEN UniqueAirportNames(table, userId)
  ELSE UniqueAirports(table, userId)

\* selectDistinct airline
DistinctAirlines(table, userId) ==
  LET fs == FlightsOf(table, userId)
  IN  {fs[i].airline : i \in 1..Len(fs)}

\* order by date desc limit 5: every order of the rows that is descending by
\* date (the database picks the order of rows with equal dates), cut to five
RecentLimit == 5
\* the order by date ascending
RECURSIVE OldestFirst(_, _, _)
OldestFirst(fs, S, k) ==
  IF k = 0 \/ S = {} THEN {<<>>}
  ELSE UNION {{<<fs[i]>> \o r : r \in OldestFirst(fs, S \ {i}, k - 1)} :
                i \in {j \in S : \A l \in S : fs[j].date <= fs[l].date}}

\* the first k rows of the orders of the rows S of fs descending by date
RECURSIVE LatestFirst(_, _, _)
LatestFirst(fs, S, k) ==
  IF k = 0 \/ S = {} THEN {<<>>}
  ELSE UNION {{<<fs[i]>> \o r : r \in LatestFirst(fs, S \ {i}, k - 1)} :
                i \in {j \in S : \A l \in S : fs[j].date >= fs[l].date}}

\* a result kept from the time the owner had no flights
RecentCached(table, userId) == {<<>>}

RecentResults(table, userId) ==
  LET fs == FlightsOf(table, userId)
  IN  LatestFirst(fs, 1..Len(fs), RecentLimit)

\* group by airline order by count(*) desc limit 10: every order of the groups
\* that is descending by count, cut to ten
TopLimit == 10
TopAirlinesResults(table, userId) ==
  LET fs == FlightsOf(table, userId)
      as == DistinctAirlines(table, userId)
      k  == Cardinality(as)
      cnt(a) == Cardinality({i \in 1..Len(fs) : fs[i].airline = a})
      ok == {s \in [1..k -> as] :
               /\ \A i, j \in 1..k : i # j => s[i] # s[j]
               /\ \A i, j \in 1..k : i < j => cnt(s[i]) >= cnt(s[j])}
  IN  {[i \in 1..MinOf(TopLimit, k) |-> [airline |-> s[i], count |-> cnt(s[i])]] :
         s \in ok}

\* the share cut down to a whole number instead of rounded
PercentageTruncated(count, totalFlights) ==
  IF totalFlights > 0 THEN (100 * count) \div totalFlights ELSE 0

\* totalFlights > 0 ? Math.round((count / totalFlights) * 100) : 0
Percentage(count, totalFlights) ==
  IF totalFlights > 0
  THEN (200 * count + totalFlights) \div (2 * totalFlights)
  ELSE 0

\* the rows of the year, grouped by month, ordered by month number
MonthlyActivity(table, userId, year) ==
  LET fs == FlightsOf(table, userId)
      inYear == {i \in 1..Len(fs) : YearOf(fs[i].date) = year}
      months == {MonthOf(fs[i].date) : i \in inYear}
      cnt(m) == Cardinality({i \in inYear : MonthOf(fs[i].date) = m})
      RECURSIVE Asc(_)
      Asc(ms) ==
        IF ms = {} THEN <<>>
        ELSE LET m == CHOOSE x \in ms : \A y \in ms : x <= y
             IN  <<[month |-> MonthLabels[m], count |-> cnt(m)]>> \o Asc(ms \ {m})
  IN  Asc(months)

\* the monthly activity of the build b: storage.ts 203-204 returns the empty
\* list, the other file runs the query
MonthlyActivityResult(b, table, userId, year) ==
  IF b = "storage.ts" THEN <<>>
  ELSE MonthlyActivity(table, userId, year)

\* the request arrives for the logged-in user u and the first query is issued
StatsRequest(c, u) ==
  /\ call[c].kind = "idle"
  /\ \A d \in Earlier(c) : call[d].kind # "idle"
  /\ u \in FirstUsers(c)
  /\ call' = [call EXCEPT ![c] =
       [@ EXCEPT !.kind = "stats", !.userId = u, !.pc = "q1",
                 !.after = {d \in Calls : call[d].pc = "done"},
                 !.count0 = Len(FlightsOf(store, u))]]
  /\ UNCHANGED <<store, nextId, upload, build, text, code, browser>>

\* a count query that also clears the other owners' rows out of the table
StatsTotalPruning(c) ==
  /\ call[c].kind = "stats"
  /\ call[c].pc = "q1"
  /\ call' = [call EXCEPT ![c] =
       [@ EXCEPT !.pc = "q2",
                 !.acc.total = CountFlights(store, call[c].userId)]]
  /\ store' = FlightsOf(store, call[c].userId)
  /\ UNCHANGED <<nextId, upload, build, text, code, browser>>

\* storage.ts 150-153: the count query returns
StatsTotal(c) ==
  /\ call[c].kind = "stats"
  /\ call[c].pc = "q1"
  /\ call' = [call EXCEPT ![c] =
       [@ EXCEPT !.pc = "q2",
                 !.acc.total = CountFlights(store, call[c].userId)]]
  /\ UNCHANGED <<store, nextId, upload, build, text, code, browser>>

\* 156-168: the airports query returns
StatsAirports(c) ==
  /\ call[c].kind = "stats"
  /\ call[c].pc = "q2"
  /\ call' = [call EXCEPT ![c] =
       [@ EXCEPT !.pc = "q3",
                 !.acc.airports = AirportsVisited(build, store, call[c].userId)]]
  /\ UNCHANGED <<store, nextId, upload, build, text, code, browser>>

\* 171-174: the airlines query returns
StatsAirlines(c) ==
  /\ call[c].kind = "stats"
  /\ call[c].pc = "q3"
  /\ call' = [call EXCEPT ![c] =
       [@ EXCEPT !.pc = "q4",
                 !.acc.airlines = DistinctAirlines(store, call[c].userId)]]
  /\ UNCHANGED <<store, nextId, upload, build, text, code, browser>>

\* 177-182: the recent flights query returns
StatsRecent(c) ==
  /\ call[c].kind = "stats"
  /\ call[c].pc = "q4"
  /\ \E r \in RecentResults(store, call[c].userId) :
       call' = [call EXCEPT ![c] = [@ EXCEPT !.pc = "q5", !.acc.recent = r]]
  /\ UNCHANGED <<store, nextId, upload, build, text, code, browser>>

\* 185-194: the top airlines query returns
StatsTopAirlines(c) ==
  /\ call[c].kind = "stats"
  /\ call[c].pc = "q5"
  /\ \E t \in TopAirlinesResults(store, call[c].userId) :
       call' = [call EXCEPT ![c] = [@ EXCEPT !.pc = "q6", !.acc.top = t]]
  /\ UNCHANGED <<store, nextId, upload, build, text, code, browser>>

\* 196-227 and routes.ts 179: the monthly query returns in the year `year`,
\* getFlightStats assembles the result and the route sends it
StatsMonthly(c, year) ==
  /\ call[c].kind = "stats"
  /\ call[c].pc = "q6"
  /\ LET cl == call[c]
         totalFlights == cl.acc.total
     IN  call' = [call EXCEPT ![c] =
           Respond([cl EXCEPT !.year = year],
             [status |-> 200,
              totalFlights |-> totalFlights,
              totalDistance |-> 0,
              airportsVisited |-> Cardinality(cl.acc.airports),
              airlinesFlown |-> Cardinality(cl.acc.airlines),
              recentFlights |-> cl.acc.recent,
              topAirlines |->
                [i \in 1..Len(cl.acc.top) |->
                   [airline |-> cl.acc.top[i].airline,
                    count |-> cl.acc.top[i].count,
                    percentage |-> Percentage(cl.acc.top[i].count, totalFlights)]],
              monthlyActivity |->
                MonthlyActivityResult(build, store, cl.userId, year)])]
  /\ UNCHANGED <<store, nextId, upload, build, text, code, browser>>

\* a failing query answered with the aggregates read so far, the others at
\* their defaults
StatsFaultDefaults(c) ==
  /\ call[c].kind = "stats"
  /\ call[c].pc \in {"q1", "q2", "q3", "q4", "q5", "q6"}
  /\ call' = [call EXCEPT ![c] =
       Respond([@ EXCEPT !.faulted = TRUE],
               [status |-> 200,
                totalFlights |-> call[c].acc.total,
                totalDistance |-> 0,
                airportsVisited |-> Cardinality(call[c].acc.airports),
                airlinesFlown |-> Cardinality(call[c].acc.airlines),
                recentFlights |-> call[c].acc.recent,
                topAirlines |-> <<>>,
                monthlyActivity |-> <<>>])]
  /\ UNCHANGED <<store, nextId, upload, build, text, code, browser>>

\* an awaited query rejects: getFlightStats throws and the route answers 500
StatsFault(c) ==
  /\ call[c].kind = "stats"
  /\ call[c].pc \in {"q1", "q2", "q3", "q4", "q5", "q6"}
  /\ call' = [call EXCEPT ![c] =
       Respond([@ EXCEPT !.faulted = TRUE],
               [status |-> 500, message |-> "Failed to fetch statistics"])]
  /\ UNCHANGED <<store, nextId, upload, build, text, code, browser>>

\* --------------------------------------------------------- GET /api/flights
\* getFlights: the owner's rows ordered by date descending, every order of
\* the rows with equal dates
GetFlightsResults(table, userId) ==
  LET fs == FlightsOf(table, userId)
  IN  LatestFirst(fs, 1..Len(fs), Len(fs))

\* the request arrives for the logged-in user u and the query is issued
FlightsRequest(c, u) ==
  /\ call[c].kind = "idle"
  /\ \A d \in Earlier(c) : call[d].kind # "idle"
  /\ u \in FirstUsers(c)
  /\ call' = [call EXCEPT ![c] =
       [@ EXCEPT !.kind = "list", !.userId = u, !.pc = "select",
                 !.after = {d \in Calls : call[d].pc = "done"},
                 !.count0 = Len(FlightsOf(store, u))]]
  /\ UNCHANGED <<store, nextId, upload, build, text, code, browser>>

\* the query returns and the route sends the rows
FlightsReturn(c) ==
  /\ call[c].kind = "list"
  /\ call[c].pc = "select"
  /\ \E r \in GetFlightsResults(store, call[c].userId) :
       call' = [call EXCEPT ![c] =
         Respond(@, [status |-> 200, flights |-> r])]
  /\ UNCHANGED <<store, nextId, upload, build, text, code, browser>>

\* the query rejects: the route answers 500
FlightsFault(c) ==
  /\ call[c].kind = "list"
  /\ call[c].pc = "select"
  /\ call' = [call EXCEPT ![c] =
       Respond([@ EXCEPT !.faulted = TRUE],
               [status |-> 500, message |-> "Failed to fetch flights"])]
  /\ UNCHANGED <<store, nextId, upload, build, text, code, browser>>

\* ---------------------------------------------------------- specifications
Init ==
  /\ store = <<>>
  /\ nextId = 1
  /\ upload \in Files
  /\ build \in Builds
  /\ call = [c \in Calls |-> IdleCall]
  /\ text = Blank
  /\ code = Pending
  /\ browser = ClosedBrowser

Next ==
  \/ \E c \in Calls, u \in Users, f \in {upload, NoFile, BadFile} :
       ImportRequest(c, u, f)
  \/ \E c \in Calls : ImportStreamError(c)
  \/ \E c \in Calls : ImportStreamEnd(c)
  \/ \E c \in Calls : ImportLoop(c)
  \/ \E c \in Calls : CreateFlightSettles(c)
  \/ \E c \in Calls : CreateFlightFault(c)
  \/ \E c \in Calls, u \in Users : StatsRequest(c, u)
  \/ \E c \in Calls : StatsTotal(c)
  \/ \E c \in Calls : StatsAirports(c)
  \/ \E c \in Calls : StatsAirlines(c)
  \/ \E c \in Calls : StatsRecent(c)
  \/ \E c \in Calls : StatsTopAirlines(c)
  \/ \E c \in Calls, year \in Years : StatsMonthly(c, year)
  \/ \E c \in Calls : StatsFault(c)
  \/ \E c \in Calls, u \in Users : FlightsRequest(c, u)
  \/ \E c \in Calls : FlightsReturn(c)
  \/ \E c \in Calls : FlightsFault(c)

Spec == Init /\ [][Next]_vars

\* ------------------------------------- the import handler running to its end
NextImport ==
  \/ \E c \in Calls, u \in Users, f \in {upload, NoFile, BadFile} :
       ImportRequest(c, u, f)
  \/ \E c \in Calls : ImportStreamError(c)
  \/ \E c \in Calls : ImportStreamEnd(c)
  \/ \E c \in Calls : ImportLoop(c)
  \/ \E c \in Calls : CreateFlightSettles(c)
  \/ \E c \in Calls : CreateFlightFault(c)

\* the parser stream ends or fails, the handler's code runs on, and every
\* awaited createFlight settles or rejects
FairImport ==
  \A c \in Calls :
    /\ WF_vars(ImportStreamError(c) \/ ImportStreamEnd(c))
    /\ WF_vars(ImportLoop(c))
    /\ WF_vars(CreateFlightSettles(c) \/ CreateFlightFault(c))

\* no statistics are asked for here, so one copy of getFlightStats stands for
\* both
InitImport == Init /\ build = "part_009"

SpecImportLive == InitImport /\ [][NextImport]_vars /\ FairImport

\* --------------------------------------- the import of the optional cells
OptionalColumns == Columns \ RequiredColumns

\* files of one row in which one optional cell is filled, left blank, or
\* absent because the header row lacks its name
OptionalCellFiles ==
  {[kind |-> "csv", header |-> Columns, rows |-> <<[row EXCEPT ![col] = v]>>] :
     row \in BaseRows, col \in OptionalColumns, v \in {Blank, <<"some text">>}}
    \cup
  {[kind |-> "csv", header |-> Columns \ {col}, rows |-> <<row>>] :
     row \in BaseRows, col \in OptionalColumns}

InitImportFields ==
  /\ store = <<>>
  /\ nextId = 1
  /\ upload \in OptionalCellFiles
  /\ build = "part_009"
  /\ call = [c \in Calls |-> IdleCall]
  /\ text = Blank
  /\ code = Pending
  /\ browser = ClosedBrowser

SpecImportFields == InitImportFields /\ [][NextImport]_vars

\* ------------------------------------------- the extractor on its own
\* pieces of airport texts; an input is up to MaxSegs of them in a row
Segments ==
  { <<"(", "F", "R", "A", "/", "EDDF", ")">>,
    <<"(", "L", "A", "X", "/", "KLAX", ")">>,
    <<"(", "f", "r", "a", "/", "eddf", ")">>,
    <<"(", "F", "r", "A", "/">>,
    <<"(", "F", "R", "/", "E", ")">>,
    <<"(", "F", "R", "A", "X", "/">>,
    <<"(", "C", "D", "G", ")">>,
    <<"F", "R", "A", "/">>,
    <<"Los Angeles / LAX International ">>,
    <<"Unknown Field">>,
    <<"(">>,
    <<"A", "B">>,
    <<"C", "/">> }

RECURSIVE Concat(_)
Concat(ss) == IF ss = <<>> THEN <<>> ELSE Head(ss) \o Concat(Tail(ss))

ExtractInputs == {Concat(ss) : ss \in SeqsUpTo(Segments, MaxSegs)}

InitExtract ==
  /\ store = <<>>
  /\ nextId = 1
  /\ upload = NoFile
  /\ build = "part_009"
  /\ call = [c \in Calls |-> IdleCall]
  /\ text \in ExtractInputs
  /\ code = Pending
  /\ browser = ClosedBrowser

\* one call extractAirportCode(text)
Extract ==
  /\ code = Pending
  /\ code' = extractAirportCode(text)
  /\ UNCHANGED <<store, nextId, upload, build, call, text, browser>>

NextExtract == Extract

SpecExtract == InitExtract /\ [][NextExtract]_vars

\* ------------------------------- the statistics over a stored collection
\* the flight an import of the row stores for the owner u under the id
StoredFlight(row, u, id) == InsertedFlight(FlightData(row, u), id)

\* the Lufthansa row on an earlier day
RowLHJanuary == [RowLH EXCEPT !["Date"] = <<"2024-01-15">>]

\* a collection imported earlier: a Lufthansa flights of 2024, by turns of
\* June and of January, and b British Airways flights of 2025 of u1, and o
\* flights of u2
StoredCollection(a, b, o) ==
  [i \in 1..(a + b + o) |->
     IF i <= a
     THEN StoredFlight(IF i % 2 = 1 THEN RowLH ELSE RowLHJanuary, "u1", i)
     ELSE IF i <= a + b THEN StoredFlight(RowBA, "u1", i)
     ELSE StoredFlight(RowLH, "u2", i)]

StoredCollections ==
  {StoredCollection(a, b, o) :
     a \in 0..MaxFirstAirline, b \in 0..MaxSecondAirline, o \in 0..1}

InitStats ==
  /\ store \in StoredCollections
  /\ nextId = Len(store) + 1
  /\ upload = NoFile
  /\ build \in Builds
  /\ call = [c \in Calls |-> IdleCall]
  /\ text = Blank
  /\ code = Pending
  /\ browser = ClosedBrowser

\* one statistics request, nothing else running
NextStats ==
  \/ \E u \in Users : StatsRequest("c1", u)
  \/ StatsTotal("c1")
  \/ StatsAirports("c1")
  \/ StatsAirlines("c1")
  \/ StatsRecent("c1")
  \/ StatsTopAirlines("c1")
  \/ \E year \in Years : StatsMonthly("c1", year)
  \/ StatsFault("c1")

SpecStats == InitStats /\ [][NextStats]_vars

\* ------------------------------------------------ the protected routes
\* the login the request's session cookie stands for; "none" without a session
Sessions == {"none"} \cup Users

\* the owner id of the mock user
DevUser == "dev-user-123"

\* isAuthenticated (replitAuth.ts): whatever the session, the middleware sets
\* req.user to the mock user and calls next()
isAuthenticated(session) ==
  [next |-> TRUE, user |-> [claims |-> [sub |-> DevUser]]]

\* a request with the session s reaches a protected route: the middleware
\* runs, then the route's handler starts with userId = req.user.claims.sub
ProtectedRequest(c, s, route, f) ==
  /\ call[c].kind = "idle"
  /\ \A d \in Earlier(c) : call[d].kind # "idle"
  /\ route = "import" \/ f = NoFile
  /\ LET auth   == isAuthenticated(s)
         userId == auth.user.claims.sub
         cl == [call[c] EXCEPT
                  !.kind = route, !.session = s, !.userId = userId,
                  !.file = f,
                  !.after = {d \in Calls : call[d].pc = "done"},
                  !.count0 = Len(FlightsOf(store, userId))]
     IN  /\ auth.next
         /\ call' = [call EXCEPT ![c] =
              CASE route = "list" -> [cl EXCEPT !.pc = "select"]
                [] route = "stats" -> [cl EXCEPT !.pc = "q1"]
                [] OTHER ->
                     IF f.kind = "none"
                     THEN Respond(cl, [status |-> 400,
                                       message |-> "No CSV file provided"])
                     ELSE [cl EXCEPT !.pc = "piped", !.csvData = CsvParse(f)]]
  /\ UNCHANGED <<store, nextId, upload, build, text, code, browser>>

\* the table holds a flight of each user; the clients upload one sound row
InitAuth ==
  /\ store = <<StoredFlight(RowLH, "u1", 1), StoredFlight(RowBA, "u2", 2)>>
  /\ nextId = 3
  /\ upload = [kind |-> "csv", header |-> Columns, rows |-> <<RowLH>>]
  /\ build \in Builds
  /\ call = [c \in Calls |-> IdleCall]
  /\ text = Blank
  /\ code = Pending
  /\ browser = ClosedBrowser

NextAuth ==
  \/ \E c \in Calls, s \in Sessions, route \in {"list", "stats", "import"},
         f \in {upload, NoFile, BadFile} :
       ProtectedRequest(c, s, route, f)
  \/ \E c \in Calls : ImportStreamError(c)
  \/ \E c \in Calls : ImportStreamEnd(c)
  \/ \E c \in Calls : ImportLoop(c)
  \/ \E c \in Calls : CreateFlightSettles(c)
  \/ \E c \in Calls : CreateFlightFault(c)
  \/ \E c \in Calls : StatsTotal(c)
  \/ \E c \in Calls : StatsAirports(c)
  \/ \E c \in Calls : StatsAirlines(c)
  \/ \E c \in Calls : StatsRecent(c)
  \/ \E c \in Calls : StatsTopAirlines(c)
  \/ \E c \in Calls, year \in Years : StatsMonthly(c, year)
  \/ \E c \in Calls : StatsFault(c)
  \/ \E c \in Calls : FlightsReturn(c)
  \/ \E c \in Calls : FlightsFault(c)

SpecAuth == InitAuth /\ [][NextAuth]_vars

\* ----------------------------------- PUT and DELETE /api/flights/:id
\* routes.ts 75-107 with updateFlight and deleteFlight of storage.ts 95-109
\* (integer ids, parseInt) and of part_009 95-109 (text ids)
NaN == -1
DigitChars == <<"0", "1", "2", "3", "4", "5", "6", "7", "8", "9">>
IsDigit(ch) == \E d \in 1..10 : DigitChars[d] = ch
DigitValue(ch) == (CHOOSE d \in 1..10 : DigitChars[d] = ch) - 1

\* the value of the digits t starts with, after the digits read so far
RECURSIVE LeadingDigits(_, _)
LeadingDigits(t, n) ==
  IF t = <<>> \/ ~IsDigit(Head(t)) THEN n
  ELSE LeadingDigits(Tail(t), 10 * n + DigitValue(Head(t)))

\* parseInt(id): the number the text starts with, NaN when it starts with none
parseInt(t) ==
  IF t = <<>> \/ ~IsDigit(Head(t)) THEN NaN ELSE LeadingDigits(t, 0)

\* the text of a stored id, as the client puts it into the path
IdText(n) == <<DigitChars[n + 1]>>

\* req.params.id of the requests
ParamIds == {<<"1">>, <<"2">>, <<"3">>, <<"7">>, <<"1", "x">>, <<"x">>}

\* the bodies of the PUT requests; null is no text
UpdateBodies ==
  {[notes |-> <<"aisle seat">>],
   [flightNumber |-> <<"LH453">>],
   [flightNumber |-> Null]}

\* insertFlightSchema.partial().parse(req.body) raises a ZodError: a column
\* declared notNull holds something that is no text
PartialParseThrows(body) ==
  \E k \in DOMAIN body \cap {"flightNumber", "fromAirport", "toAirport", "airline"} :
    body[k] \in {Null, Undefined}

\* eq(flights.id, ...): storage.ts compares with parseInt(id), part_009 with id
IdMatches(b, f, id) ==
  IF b = "storage.ts" THEN f.id = parseInt(id) ELSE IdText(f.id) = id

\* and(eq(flights.id, ...), eq(flights.userId, userId))
WhereIdAndOwner(b, f, id, userId) == IdMatches(b, f, id) /\ f.userId = userId

\* the query cannot be run: NaN is no value of an integer column
QueryThrows(b, id) == b = "storage.ts" /\ parseInt(id) = NaN

\* .set({...flightData, updatedAt: new Date()}) on one row
SetFields(f, flightData) ==
  [k \in DOMAIN f |-> IF k \in DOMAIN flightData THEN flightData[k] ELSE f[k]]

\* updateFlight: the table after the update, and the rows it returns
UpdatedTable(b, table, id, userId, flightData) ==
  [i \in 1..Len(table) |->
     IF WhereIdAndOwner(b, table[i], id, userId)
     THEN SetFields(table[i], flightData)
     ELSE table[i]]

UpdateReturning(b, table, id, userId, flightData) ==
  SelectSeq(UpdatedTable(b, table, id, userId, flightData),
            LAMBDA f : WhereIdAndOwner(b, f, id, userId))

\* deleteFlight: the table after the delete
DeletedTable(b, table, id, userId) ==
  SelectSeq(table, LAMBDA f : ~WhereIdAndOwner(b, f, id, userId))

\* what the delete without returning() resolves to on PostgreSQL: the driver's
\* result object with the rows (none) and the number of deleted rows
DeleteResult(b, table, id, userId) ==
  [rows |-> <<>>,
   rowCount |-> Len(table) - Len(DeletedTable(b, table, id, userId))]

\* the number a property of the result compares as: NaN for a property the
\* object lacks (undefined)
NumberOf(result, name) ==
  IF name \in DOMAIN result THEN result[name] ELSE NaN

\* return result.changes > 0 (storage.ts), return result.length > 0 (part_009)
DeleteFlightReturns(b, result) ==
  IF b = "storage.ts"
  THEN NumberOf(result, "changes") > 0
  ELSE NumberOf(result, "length") > 0

\* PUT /api/flights/:id arrives for the logged-in user u
UpdateRequest(c, u, id, body) ==
  /\ call[c].kind = "idle"
  /\ \A d \in Earlier(c) : call[d].kind # "idle"
  /\ u \in FirstUsers(c)
  /\ LET cl == [call[c] EXCEPT !.kind = "update", !.userId = u,
                               !.param = id, !.body = body]
     IN  call' = [call EXCEPT ![c] =
           IF PartialParseThrows(body)
           THEN Respond(cl, [status |-> 400, message |-> "Invalid flight data"])
           ELSE [cl EXCEPT !.pc = "update"]]
  /\ UNCHANGED <<store, nextId, upload, build, text, code, browser>>

\* the update runs and the route answers with the row or with 404
UpdateSettles(c) ==
  /\ call[c].kind = "update"
  /\ call[c].pc = "update"
  /\ LET cl == call[c]
         rows == UpdateReturning(build, store, cl.param, cl.userId, cl.body)
     IN  IF QueryThrows(build, cl.param)
         THEN /\ call' = [call EXCEPT ![c] =
                   Respond(@, [status |-> 500, message |-> "Failed to update flight"])]
              /\ store' = store
         ELSE /\ store' = UpdatedTable(build, store, cl.param, cl.userId, cl.body)
              /\ call' = [call EXCEPT ![c] =
                   IF rows = <<>>
                   THEN Respond(@, [status |-> 404, message |-> "Flight not found"])
                   ELSE Respond(@, [status |-> 200, flight |-> rows[1]])]
  /\ UNCHANGED <<nextId, upload, build, text, code, browser>>

\* DELETE /api/flights/:id arrives for the logged-in user u
DeleteRequest(c, u, id) ==
  /\ call[c].kind = "idle"
  /\ \A d \in Earlier(c) : call[d].kind # "idle"
  /\ u \in FirstUsers(c)
  /\ call' = [call EXCEPT ![c] =
       [@ EXCEPT !.kind = "delete", !.userId = u, !.param = id, !.pc = "delete"]]
  /\ UNCHANGED <<store, nextId, upload, build, text, code, browser>>

\* the delete runs and the route answers 204 when deleteFlight returns true,
\* 404 otherwise
DeleteSettles(c) ==
  /\ call[c].kind = "delete"
  /\ call[c].pc = "delete"
  /\ LET cl == call[c]
         result == DeleteResult(build, store, cl.param, cl.userId)
     IN  IF QueryThrows(build, cl.param)
         THEN /\ call' = [call EXCEPT ![c] =
                   Respond(@, [status |-> 500, message |-> "Failed to delete flight"])]
              /\ store' = store
         ELSE /\ store' = DeletedTable(build, store, cl.param, cl.userId)
              /\ call' = [call EXCEPT ![c] =
                   IF DeleteFlightReturns(build, result)
                   THEN Respond(@, [status |-> 204])
                   ELSE Respond(@, [status |-> 404, message |-> "Flight not found"])]
  /\ UNCHANGED <<nextId, upload, build, text, code, browser>>

\* the database rejects the statement: the route's catch answers 500
OwnFlightFault(c) ==
  /\ call[c].kind \in {"update", "delete"}
  /\ call[c].pc \in {"update", "delete"}
  /\ call' = [call EXCEPT ![c] =
       Respond([@ EXCEPT !.faulted = TRUE],
               [status |-> 500,
                message |-> IF @.kind = "update" THEN "Failed to update flight"
                            ELSE "Failed to delete flight"])]
  /\ UNCHANGED <<store, nextId, upload, build, text, code, browser>>

\* the table holds two flights of u1 and one of u2
InitOwnFlights ==
  /\ store = <<StoredFlight(RowLH, "u1", 1), StoredFlight(RowBA, "u1", 2),
               StoredFlight(RowLH, "u2", 3)>>
  /\ nextId = 4
  /\ upload = NoFile
  /\ build \in Builds
  /\ call = [c \in Calls |-> IdleCall]
  /\ text = Blank
  /\ code = Pending
  /\ browser = ClosedBrowser

NextOwnFlights ==
  \/ \E c \in Calls, u \in Users, id \in ParamIds, body \in UpdateBodies :
       UpdateRequest(c, u, id, body)
  \/ \E c \in Calls : UpdateSettles(c)
  \/ \E c \in Calls, u \in Users, id \in ParamIds : DeleteRequest(c, u, id)
  \/ \E c \in Calls : DeleteSettles(c)
  \/ \E c \in Calls : OwnFlightFault(c)

SpecOwnFlights == InitOwnFlights /\ [][NextOwnFlights]_vars

\* ---------------------------------------- the client's two mutating components
\* csv-import.tsx (CsvImport) and flight-form.tsx (FlightForm); the response of
\* the server reaches them as response.ok, and a failure as the answer of
\* isUnauthorizedError(error)
MaxInFlight == 2
\* the pending setTimeout callbacks that are told apart
MaxTimers == 2

Mutations == {"import", "create"}
QueryKeys == {"/api/flights", "/api/stats"}
\* the route under which App.tsx mounts the page of each component
RouteOf(m) == IF m = "import" THEN "/import" ELSE "/add-flight"
\* what a drop hands to onDrop: the files react-dropzone accepted
DroppedFiles ==
  {[name |-> n, type |-> t] :
     n \in {"a.csv", "b.csv"}, t \in {"text/csv", "application/vnd.ms-excel"}}
AcceptedFiles == {<<>>} \cup {<<f>> : f \in DroppedFiles}

\* the component of mutation m is on screen
Mounted(b, m) == b.href = "app" /\ b.location = RouteOf(m)

\* the statements of a callback, in the order the code runs them
Toast(title) == [op |-> "toast", arg |-> title]
InvalidateQueries(key) == [op |-> "invalidateQueries", arg |-> key]
SetLocation(path) == [op |-> "setLocation", arg |-> path]
SetTimeout(url) == [op |-> "setTimeout", arg |-> url]

\* the effect of one statement on the browser
RunOne(b, e) ==
  CASE e.op = "toast" -> [b EXCEPT !.toasts = @ \cup {e.arg}]
    [] e.op = "invalidateQueries" -> [b EXCEPT !.invalidated = @ \cup {e.arg}]
    [] e.op = "setLocation" -> [b EXCEPT !.location = e.arg]
    [] e.op = "setTimeout" ->
         [b EXCEPT !.timers = IF @ < MaxTimers THEN @ + 1 ELSE @]

RECURSIVE RunAll(_, _)
RunAll(b, es) == IF es = <<>> THEN b ELSE RunAll(RunOne(b, Head(es)), Tail(es))

\* a callback: its statements run in order and are remembered as the trace of
\* the latest callback
Run(b, es) == [RunAll(b, es) EXCEPT !.trace = es]

SuccessTitle(m) == IF m = "import" THEN "Import Successful" ELSE "Success"
FailureTitle(m) == IF m = "import" THEN "Import Failed" ELSE "Error"

\* an onSuccess that only navigates
OnSuccessNavigatesOnly(m) == <<Toast(SuccessTitle(m)), SetLocation("/flights")>>

\* onSuccess of importMutation and of createFlightMutation
OnSuccess(m) ==
  <<Toast(SuccessTitle(m)),
    InvalidateQueries("/api/flights"),
    InvalidateQueries("/api/stats"),
    SetLocation("/flights")>>

\* onError of both mutations; unauthorized is the answer of
\* isUnauthorizedError(error)
OnError(m, unauthorized) ==
  IF unauthorized
  THEN <<Toast("Unauthorized"), SetTimeout("/api/login")>>
  ELSE <<Toast(FailureTitle(m))>>

\* onDrop: a first accepted file of type text/csv is kept, anything else is
\* answered with a toast
Drop(acceptedFiles) ==
  /\ Mounted(browser, "import")
  /\ browser' =
       IF acceptedFiles # <<>> /\ acceptedFiles[1].type = "text/csv"
       THEN [browser EXCEPT !.uploadedFile = acceptedFiles[1]]
       ELSE [browser EXCEPT !.toasts = @ \cup {"Invalid File"}]
  /\ UNCHANGED <<store, nextId, upload, build, call, text, code>>

\* handleRemoveFile, behind the button shown while a file is selected
RemoveFile ==
  /\ Mounted(browser, "import")
  /\ browser.uploadedFile # NoUpload
  /\ browser' = [browser EXCEPT !.uploadedFile = NoUpload]
  /\ UNCHANGED <<store, nextId, upload, build, call, text, code>>

\* an "Import Flights" button that is never disabled
ImportButtonAlwaysEnabled(b) == FALSE

\* disabled={!uploadedFile || importMutation.isPending}
ImportButtonDisabled(b) ==
  b.uploadedFile = NoUpload \/ b.mutation["import"].status = "pending"

\* mutate(): the mutation is pending and its request is in flight
Mutate(b, m) ==
  [b EXCEPT !.mutation[m] = [status |-> "pending", inFlight |-> @.inFlight + 1]]

\* a click on "Import Flights": handleImport sends the selected file
ClickImport ==
  /\ Mounted(browser, "import")
  /\ ~ImportButtonDisabled(browser)
  /\ browser.mutation["import"].inFlight < MaxInFlight
  /\ browser' = IF browser.uploadedFile # NoUpload
                THEN Mutate(browser, "import")
                ELSE browser
  /\ UNCHANGED <<store, nextId, upload, build, call, text, code>>

\* the form is submitted with valid data: onSubmit, behind the submit button
\* disabled={createFlightMutation.isPending}
Submit ==
  /\ Mounted(browser, "create")
  /\ browser.mutation["create"].status # "pending"
  /\ browser.mutation["create"].inFlight < MaxInFlight
  /\ browser' = Mutate(browser, "create")
  /\ UNCHANGED <<store, nextId, upload, build, call, text, code>>

\* the Cancel button of either component, disabled while its mutation is pending
ClickCancel(m) ==
  /\ Mounted(browser, m)
  /\ browser.mutation[m].status # "pending"
  /\ browser' = [browser EXCEPT !.location = "/flights"]
  /\ UNCHANGED <<store, nextId, upload, build, call, text, code>>

\* the request of mutation m is answered with response.ok
MutationSucceeds(m) ==
  /\ browser.href = "app"
  /\ browser.mutation[m].inFlight > 0
  /\ browser' =
       Run([browser EXCEPT !.mutation[m] =
              [status |-> "success", inFlight |-> @.inFlight - 1]],
           OnSuccess(m))
  /\ UNCHANGED <<store, nextId, upload, build, call, text, code>>

\* the request of mutation m fails: mutationFn throws and onError runs
MutationFails(m, unauthorized) ==
  /\ browser.href = "app"
  /\ browser.mutation[m].inFlight > 0
  /\ browser' =
       Run([browser EXCEPT !.mutation[m] =
              [status |-> "error", inFlight |-> @.inFlight - 1]],
           OnError(m, unauthorized))
  /\ UNCHANGED <<store, nextId, upload, build, call, text, code>>

\* the callback of setTimeout(..., 500): window.location.href = "/api/login"
\* unloads the application
TimerFires ==
  /\ browser.href = "app"
  /\ browser.timers > 0
  /\ browser' = [browser EXCEPT !.href = "/api/login", !.timers = 0]
  /\ UNCHANGED <<store, nextId, upload, build, call, text, code>>

\* a query that was invalidated is fetched again
Refetch(key) ==
  /\ browser.href = "app"
  /\ key \in browser.invalidated
  /\ browser' = [browser EXCEPT !.invalidated = @ \ {key}]
  /\ UNCHANGED <<store, nextId, upload, build, call, text, code>>

\* a logged-in user has opened the import page or the add-flight page
InitClient ==
  /\ store = <<>>
  /\ nextId = 1
  /\ upload = NoFile
  /\ build = "part_009"
  /\ call = [c \in Calls |-> IdleCall]
  /\ text = Blank
  /\ code = Pending
  /\ \E path \in {RouteOf(m) : m \in Mutations} :
       browser = [ClosedBrowser EXCEPT
                    !.href = "app", !.location = path,
                    !.auth = [isLoading |-> FALSE, user |-> LoggedIn,
                              error |-> Null]]

NextClient ==
  \/ \E fs \in AcceptedFiles : Drop(fs)
  \/ RemoveFile
  \/ ClickImport
  \/ Submit
  \/ \E m \in Mutations : ClickCancel(m)
  \/ \E m \in Mutations : MutationSucceeds(m)
  \/ \E m \in Mutations, unauthorized \in BOOLEAN : MutationFails(m, unauthorized)
  \/ TimerFires
  \/ \E key \in QueryKeys : Refetch(key)

\* every request is answered and every timer fires
FairClient ==
  /\ \A m \in Mutations :
       WF_vars(MutationSucceeds(m) \/ \E un \in BOOLEAN : MutationFails(m, un))
  /\ WF_vars(TimerFires)

SpecClient == InitClient /\ [][NextClient]_vars /\ FairClient

\* ------------------------------------------------------ the client's pages
\* App.tsx (Router), hooks/useAuth.ts and the pages Dashboard, Flights,
\* FlightMap and AddFlight
JsTrue == <<"true">>
JsFalse == <<"false">>
JsBool(p) == IF p THEN JsTrue ELSE JsFalse
\* !!v
IsTruthy(v) == Truthy(v) /\ v # JsFalse

\* the paths a location can hold: the routes of App.tsx, and one that has none
Paths == {"/", "/auth", "/flights", "/map", "/add-flight", "/import", "/nowhere"}

\* the pages that ask useAuth for isAuthenticated
GuardedPage(path) ==
  CASE path = "/" -> "Dashboard"
    [] path = "/flights" -> "Flights"
    [] path = "/map" -> "FlightMap"
    [] path = "/add-flight" -> "AddFlight"
    [] OTHER -> ""

\* useAuth(): the context value AuthProvider builds
UseAuth(b) ==
  [user |-> b.auth.user, isLoading |-> JsBool(b.auth.isLoading),
   error |-> b.auth.error]

\* const { name } = object: a property the object lacks is undefined
Property(object, name) ==
  IF name \in DOMAIN object THEN object[name] ELSE Undefined

\* Router: the component rendered for the location
Router(b) ==
  IF b.href # "app" THEN ""
  ELSE IF b.auth.isLoading THEN "Spinner"
  ELSE IF ~IsTruthy(b.auth.user)
       THEN IF b.location \in {"/auth", "/"} THEN "AuthPage" ELSE "NotFound"
  ELSE IF GuardedPage(b.location) # "" THEN GuardedPage(b.location)
  ELSE IF b.location = "/import" THEN "ImportCSV"
  ELSE "NotFound"

\* what a guarded page returns: null while isLoading || !isAuthenticated
PageReturns(b) ==
  LET authenticated == Property(UseAuth(b), "isAuthenticated")
      loading == Property(UseAuth(b), "isLoading")
  IN  IF IsTruthy(loading) \/ ~IsTruthy(authenticated)
      THEN "null" ELSE "content"

\* the statements of the pages' effect
PageEffectBody(b) ==
  LET authenticated == Property(UseAuth(b), "isAuthenticated")
      loading == Property(UseAuth(b), "isLoading")
  IN  IF ~IsTruthy(loading) /\ ~IsTruthy(authenticated)
      THEN <<Toast("Unauthorized"), SetTimeout("/api/login")>>
      ELSE <<>>

\* the error the auth query holds after a failure other than a 401
QueryError == <<"Error">>

\* the auth query settles: with the user, with null on a 401 (on401:
\* "returnNull"), or with an error and no data (user ?? null)
AuthQuerySettles(user, error) ==
  /\ browser.href = "app"
  /\ browser.auth.isLoading
  /\ error # Null => user = Null
  /\ browser' = [browser EXCEPT
                   !.auth = [isLoading |-> FALSE, user |-> user, error |-> error]]
  /\ UNCHANGED <<store, nextId, upload, build, call, text, code>>

\* loginMutation.onSuccess: setQueryData(["/api/auth/user"], user)
LoginSucceeds ==
  /\ Router(browser) = "AuthPage"
  /\ browser' = [browser EXCEPT !.auth.user = LoggedIn, !.effectRan = FALSE]
  /\ UNCHANGED <<store, nextId, upload, build, call, text, code>>

\* logoutMutation.onSuccess: setQueryData(["/api/auth/user"], null)
LogoutSucceeds ==
  /\ browser.href = "app"
  /\ ~browser.auth.isLoading
  /\ browser.auth.user = LoggedIn
  /\ browser' = [browser EXCEPT !.auth.user = Null, !.effectRan = FALSE]
  /\ UNCHANGED <<store, nextId, upload, build, call, text, code>>

\* the location changes and the Router mounts the component of the new path
LocationChanges(path) ==
  /\ browser.href = "app"
  /\ path # browser.location
  /\ browser' = [browser EXCEPT !.location = path, !.effectRan = FALSE]
  /\ UNCHANGED <<store, nextId, upload, build, call, text, code>>

\* useEffect of the guarded page that was mounted
PageEffect ==
  /\ GuardedPage(browser.location) # ""
  /\ Router(browser) = GuardedPage(browser.location)
  /\ ~browser.effectRan
  /\ browser' = Run([browser EXCEPT !.effectRan = TRUE], PageEffectBody(browser))
  /\ UNCHANGED <<store, nextId, upload, build, call, text, code>>

\* the application is loaded at some path and asks for the user
InitPages ==
  /\ store = <<>>
  /\ nextId = 1
  /\ upload = NoFile
  /\ build = "part_009"
  /\ call = [c \in Calls |-> IdleCall]
  /\ text = Blank
  /\ code = Pending
  /\ \E path \in Paths :
       browser = [ClosedBrowser EXCEPT !.href = "app", !.location = path]

NextPages ==
  \/ \E user \in {Null, LoggedIn}, error \in {Null, QueryError} :
       AuthQuerySettles(user, error)
  \/ LoginSucceeds
  \/ LogoutSucceeds
  \/ \E path \in Paths : LocationChanges(path)
  \/ PageEffect
  \/ TimerFires

SpecPages == InitPages /\ [][NextPages]_vars

\* ------------------------------------------------------------ properties
ImportDone(c) == call[c].kind = "import" /\ call[c].pc = "done"
StatsDone(c) == call[c].kind = "stats" /\ call[c].pc = "done"
Reply(c) == call[c].res[1]

\* a row the specification calls valid: every required cell filled, the date
\* one a Date can hold
RowSound(row) ==
  /\ \A col \in RequiredColumns : row[col] \notin {Undefined, Blank}
  /\ NewDate(row["Date"]) # InvalidDate

FullHeader(f) == f.kind = "csv" /\ f.header = Columns

FileSound(f) ==
  /\ FullHeader(f)
  /\ \A i \in 1..Len(f.rows) : RowSound(f.rows[i])

\* the stored flights the call c pushed on its flights array
AddedBy(c) ==
  {j \in 1..Len(store) :
     \E i \in 1..Len(call[c].flights) : call[c].flights[i] = store[j].id}

\* C1: round trip.  An import of a file of N valid rows, for an owner without
\* flights when the request arrives and with the database answering, reports
\* the count N; a statistics call of the same owner that arrives after the
\* import's response reports totalFlights = N.
C1_RoundTrip ==
  \A c \in Calls :
    (/\ ImportDone(c)
     /\ FileSound(call[c].file)
     /\ ~call[c].faulted
     /\ call[c].count0 = 0)
    => /\ Len(call[c].res) = 1
       /\ Reply(c).status = 200
       /\ Reply(c).flights = Len(call[c].file.rows)
       /\ \A s \in Calls :
            (/\ StatsDone(s)
             /\ call[s].userId = call[c].userId
             /\ c \in call[s].after
             /\ ~call[s].faulted)
            => /\ Reply(s).status = 200
               /\ Reply(s).totalFlights = Len(call[c].file.rows)

\* C1 witness: two valid rows imported, then the owner's statistics show 2
C1_Witness ==
  /\ ImportDone("c1")
  /\ FileSound(call["c1"].file)
  /\ Len(call["c1"].file.rows) = 2
  /\ Reply("c1").status = 200
  /\ StatsDone("c2")
  /\ call["c2"].userId = "u1"
  /\ "c1" \in call["c2"].after
  /\ Reply("c2").status = 200
  /\ Reply("c2").totalFlights = 2

\* C2: no idempotence.  When the same file of N valid rows has been imported
\* twice for one owner (the database answering), the owner holds 2N flights
\* more than before the first import, each under its own identifier.
C2_ImportTwiceDoubles ==
  (/\ ImportDone("c1")
   /\ ImportDone("c2")
   /\ call["c1"].userId = call["c2"].userId
   /\ call["c1"].file = call["c2"].file
   /\ FileSound(call["c1"].file)
   /\ ~call["c1"].faulted
   /\ ~call["c2"].faulted)
  => LET fs == FlightsOf(store, call["c1"].userId)
     IN  /\ Len(fs) = call["c1"].count0 + 2 * Len(call["c1"].file.rows)
         /\ \A i, j \in 1..Len(fs) : i # j => fs[i].id # fs[j].id
         /\ Cardinality(AddedBy("c2")) = Len(call["c1"].file.rows)

\* C2 witness: the second import of a two-row file arrived after the first
\* one's response, and the owner holds four flights
C2_Witness ==
  /\ ImportDone("c1")
  /\ ImportDone("c2")
  /\ call["c2"].userId = "u1"
  /\ call["c1"].file = call["c2"].file
  /\ FileSound(call["c1"].file)
  /\ Len(call["c1"].file.rows) = 2
  /\ "c1" \in call["c2"].after
  /\ Reply("c2").status = 200
  /\ Len(FlightsOf(store, "u1")) = 4

\* a file with the full header whose rows are valid but for blank Date cells
BlankDateFile(f) ==
  /\ FullHeader(f)
  /\ \E i \in 1..Len(f.rows) : f.rows[i]["Date"] = Blank
  /\ \A i \in 1..Len(f.rows) :
       f.rows[i]["Date"] # Blank => RowSound(f.rows[i])

\* C3 as claimed: a row with a blank Date cell is skipped and the import goes
\* on; the call answers with success and the count of the valid rows, all of
\* which are stored.
C3_BlankDateRowSkipped ==
  \A c \in Calls :
    (/\ ImportDone(c)
     /\ BlankDateFile(call[c].file)
     /\ ~call[c].faulted)
    => LET valid == {i \in 1..Len(call[c].file.rows) :
                       RowSound(call[c].file.rows[i])}
       IN  /\ Reply(c).status = 200
           /\ Reply(c).flights = Cardinality(valid)
           /\ Cardinality(AddedBy(c)) = Cardinality(valid)

\* C4 as claimed: with a required name missing from the header row the call
\* fails before any data row is processed: it issues no create, stores nothing
\* and does not answer with success.
C4_MissingHeaderFailsFast ==
  \A c \in Calls :
    (/\ call[c].kind = "import"
     /\ call[c].file.kind = "csv"
     /\ ~(RequiredColumns \subseteq call[c].file.header))
    => /\ call[c].log = <<>>
       /\ call[c].flights = <<>>
       /\ call[c].pc = "done" => Reply(c).status # 200

\* C5 as claimed: no stored flight comes from a row with an empty required
\* field or an unparseable date.
C5_NoFlightFromDefectiveRow ==
  \A j \in 1..Len(store) :
    /\ store[j].date # InvalidDate
    /\ store[j].flightNumber \notin {Undefined, Null, Blank}
    /\ store[j].fromAirport \notin {Undefined, Null, Blank}
    /\ store[j].toAirport \notin {Undefined, Null, Blank}
    /\ store[j].airline \notin {Undefined, Null, Blank}

\* C6: no all-or-nothing.  When an import ends in the catch block at row k,
\* the flights of rows 1..k-1 are in the table as inserted, and the table holds
\* no flight of the call for row k or a later row (every stored flight is one
\* some call has pushed on its flights array, and this call has pushed k-1).
C6_PartialImportStays ==
  /\ \A j \in 1..Len(store) : \E d \in Calls : j \in AddedBy(d)
  /\ \A c \in Calls :
       (ImportDone(c) /\ Reply(c).status = 500)
       => LET cl == call[c]
              k  == cl.idx
          IN  /\ Len(cl.flights) = k - 1
              /\ Cardinality(AddedBy(c)) = k - 1
              /\ \A i \in 1..(k - 1) :
                   \E j \in 1..Len(store) :
                     store[j] = InsertedFlight(FlightData(cl.csvData[i], cl.userId),
                                               cl.flights[i])

\* C6 witness: an import failed at its second row and the flight of its first
\* row is in the table
C6_Witness ==
  \E c \in Calls :
    /\ ImportDone(c)
    /\ Reply(c).status = 500
    /\ call[c].idx = 2
    /\ Cardinality(AddedBy(c)) = 1

\* C7 as claimed: for every file (full header, database answering) the call
\* ends with a count, and the count is the number of flights the call added.
C7_CountIsAdded ==
  \A c \in Calls :
    (/\ ImportDone(c)
     /\ FullHeader(call[c].file)
     /\ ~call[c].faulted)
    => /\ Reply(c).status = 200
       /\ Reply(c).flights = Cardinality(AddedBy(c))

\* C8: a file of a header row only.  The import issues no create, and ends
\* with the success response and the count 0.
C8_HeaderOnly ==
  \A c \in Calls :
    (/\ call[c].kind = "import"
     /\ FullHeader(call[c].file)
     /\ call[c].file.rows = <<>>)
    => /\ call[c].awaiting = <<>>
       /\ call[c].flights = <<>>
       /\ \A i \in 1..Len(call[c].log) : call[c].log[i][1] # "begin"
       /\ call[c].pc = "done"
            => /\ Len(call[c].res) = 1
               /\ Reply(c).status = 200
               /\ Reply(c).flights = 0

\* C8 witness: an import of a header-only file has answered
C8_Witness ==
  \E c \in Calls :
    /\ ImportDone(c)
    /\ FullHeader(call[c].file)
    /\ call[c].file.rows = <<>>
    /\ Reply(c).status = 200

\* C9: one create at a time, in file order.  The creates of a call begin and
\* end in the order begin 1, end 1, begin 2, end 2, ...; the success response
\* comes after the end of the create of the last row; and the flights of the
\* call stand in the table in row order.
C9_SequentialInRowOrder ==
  \A c \in Calls :
    call[c].kind = "import"
    => LET cl == call[c]
           n  == Len(cl.csvData)
       IN  /\ \A j \in 1..Len(cl.log) :
                IF cl.log[j][1] = "respond"
                THEN j = 2 * n + 1
                ELSE IF j % 2 = 1
                THEN cl.log[j] = <<"begin", (j + 1) \div 2>>
                ELSE cl.log[j] = <<"end", j \div 2>>
           /\ (cl.pc = "done" /\ Reply(c).status = 200)
                => /\ Len(cl.log) = 2 * n + 1
                   /\ Len(cl.flights) = n
           /\ \A i, j \in 1..Len(cl.flights) :
                i < j => cl.flights[i] < cl.flights[j]

\* C9 witness: a call has created the flights of two rows and answered
C9_Witness ==
  \E c \in Calls :
    /\ ImportDone(c)
    /\ Reply(c).status = 200
    /\ Len(call[c].log) = 5

LowerLetters ==
  <<"a","b","c","d","e","f","g","h","i","j","k","l","m",
    "n","o","p","q","r","s","t","u","v","w","x","y","z">>
UpperSeq ==
  <<"A","B","C","D","E","F","G","H","I","J","K","L","M",
    "N","O","P","Q","R","S","T","U","V","W","X","Y","Z">>

IsLetter(ch) == \E i \in 1..26 : ch = LowerLetters[i] \/ ch = UpperSeq[i]

ToUpper(ch) ==
  IF \E i \in 1..26 : ch = LowerLetters[i]
  THEN UpperSeq[CHOOSE i \in 1..26 : ch = LowerLetters[i]]
  ELSE ch

MinIn(S) == CHOOSE x \in S : \A y \in S : x <= y

\* the code the claim describes: in the first parenthesized group, the three
\* letters right before the first "/", uppercased; null without such a group
ClaimedCode(s) ==
  LET opens == {i \in 1..Len(s) : s[i] = "("}
  IN  IF opens = {} THEN Null
      ELSE LET open   == MinIn(opens)
               closes == {j \in (open + 1)..Len(s) : s[j] = ")"}
           IN  IF closes = {} THEN Null
               ELSE LET close   == MinIn(closes)
                        slashes == {k \in (open + 1)..(close - 1) : s[k] = "/"}
                    IN  IF slashes = {} THEN Null
                        ELSE LET k == MinIn(slashes)
                             IN  IF /\ k - 3 > open
                                    /\ \A d \in 1..3 : IsLetter(s[k - d])
                                 THEN <<ToUpper(s[k-3]), ToUpper(s[k-2]),
                                        ToUpper(s[k-1])>>
                                 ELSE Null

\* C10 as claimed: for every text the extractor returns the uppercased three
\* letters before the "/" of the first parenthesized group, and null exactly
\* when the text has no such group.
C10_ExtractAsClaimed ==
  code # Pending => code = ClaimedCode(text)

\* the positions where "(" is followed by three capitals A-Z and a "/"
CodeSites(s) ==
  {i \in 1..(Len(s) - 4) :
     /\ s[i] = "("
     /\ s[i + 4] = "/"
     /\ \A d \in 1..3 : \E n \in 1..26 : s[i + d] = UpperSeq[n]}

\* C10 amended: the extractor returns, unchanged, the three capitals of the
\* leftmost place where "(" is followed by exactly three capitals A-Z and a
\* "/", and null exactly when the text has no such place.
C10_LeftmostCapitalCode ==
  code # Pending
  => IF CodeSites(text) = {}
     THEN code = Null
     ELSE LET i == MinIn(CodeSites(text))
          IN  code = <<text[i + 1], text[i + 2], text[i + 3]>>

\* C10 witness: a lowercase group is passed over and the code of the capital
\* group after it is returned
C10_Witness ==
  /\ code = <<"L", "A", "X">>
  /\ Len(text) > 7
  /\ text[2] = "f"

\* C11: the extractor never raises.  For every row an import has processed,
\* rows without a From or To cell included, the extractor yields a code or
\* null for both cells, so no import ends at a row because the extractor threw.
C11_ExtractorNeverRaises ==
  \A c \in Calls :
    (/\ ImportDone(c)
     /\ call[c].idx \in 1..Len(call[c].csvData))
    => LET row == call[c].csvData[call[c].idx]
       IN  /\ extractAirportCode(row["From"]) # TypeError
           /\ extractAirportCode(row["To"]) # TypeError

\* the statistics call c has answered with a StatsView
StatsAnswered(c) == StatsDone(c) /\ Reply(c).status = 200

\* p is count / total * 100 rounded to the nearest whole number, a half up
IsRounded(p, count, total) ==
  /\ 2 * p * total <= 200 * count + total
  /\ 2 * p * total > 200 * count - total

RECURSIVE SumOfPercentages(_)
SumOfPercentages(top) ==
  IF top = <<>> THEN 0
  ELSE Head(top).percentage + SumOfPercentages(Tail(top))

\* C12: percentage invariant.  For every collection of an owner, each
\* topAirlines entry of the statistics has percentage = round(count /
\* totalFlights * 100), and the percentages of all entries sum to at most 100.
C12_PercentagesSumTo100 ==
  StatsAnswered("c1")
  => LET v == Reply("c1")
     IN  /\ \A i \in 1..Len(v.topAirlines) :
              IsRounded(v.topAirlines[i].percentage, v.topAirlines[i].count,
                        v.totalFlights)
         /\ SumOfPercentages(v.topAirlines) <= 100

\* C12 amended: each entry has percentage = round(count / totalFlights * 100);
\* the percentages sum to at most 100 plus half the number of entries (every
\* entry may be rounded up by a half), so the sum can pass 100.
C12_PercentagesRounded ==
  StatsAnswered("c1")
  => LET v == Reply("c1")
     IN  /\ \A i \in 1..Len(v.topAirlines) :
              IsRounded(v.topAirlines[i].percentage, v.topAirlines[i].count,
                        v.totalFlights)
         /\ SumOfPercentages(v.topAirlines)
              <= 100 + Len(v.topAirlines) \div 2

\* C12 witness: seven flights of one airline and one of another: 88 + 13
C12_Witness ==
  /\ StatsAnswered("c1")
  /\ Reply("c1").totalFlights = 8
  /\ Len(Reply("c1").topAirlines) = 2
  /\ Reply("c1").topAirlines[1].percentage = 88
  /\ Reply("c1").topAirlines[2].percentage = 13

\* C13: an owner without flights.  The statistics call of an owner who has no
\* flights, the database answering, succeeds and returns totalFlights = 0,
\* airportsVisited = 0, airlinesFlown = 0 and empty topAirlines,
\* recentFlights and monthlyActivity.
C13_EmptyOwner ==
  (/\ StatsDone("c1")
   /\ ~call["c1"].faulted
   /\ FlightsOf(store, call["c1"].userId) = <<>>)
  => /\ Len(call["c1"].res) = 1
     /\ Reply("c1").status = 200
     /\ Reply("c1").totalFlights = 0
     /\ Reply("c1").airportsVisited = 0
     /\ Reply("c1").airlinesFlown = 0
     /\ Reply("c1").topAirlines = <<>>
     /\ Reply("c1").recentFlights = <<>>
     /\ Reply("c1").monthlyActivity = <<>>

\* C13 witness: the owner has no flight, another owner has one, and the
\* statistics came back empty
C13_Witness ==
  /\ StatsAnswered("c1")
  /\ FlightsOf(store, call["c1"].userId) = <<>>
  /\ store # <<>>
  /\ Reply("c1").totalFlights = 0
  /\ Reply("c1").topAirlines = <<>>

\* the number of flights of the airline in the collection fs
FlightsWith(fs, airline) ==
  Cardinality({i \in 1..Len(fs) : fs[i].airline = airline})

\* where the collection fs first shows the airline
FirstSeen(fs, airline) ==
  MinIn({i \in 1..Len(fs) : fs[i].airline = airline})

\* C14: topAirlines has at most 10 entries, one per distinct airline string,
\* with the airline's count, in non-increasing order of count; airlines with
\* equal counts stand in the order in which the owner's collection first shows
\* them, and no airline left out has a larger count than a listed one.
C14_TopAirlinesStable ==
  StatsAnswered("c1")
  => LET fs  == FlightsOf(store, call["c1"].userId)
         all == {fs[i].airline : i \in 1..Len(fs)}
         top == Reply("c1").topAirlines
         listed == {top[i].airline : i \in 1..Len(top)}
     IN  /\ Len(top) = MinOf(10, Cardinality(all))
         /\ listed \subseteq all
         /\ Cardinality(listed) = Len(top)
         /\ \A i \in 1..Len(top) : top[i].count = FlightsWith(fs, top[i].airline)
         /\ \A i, j \in 1..Len(top) :
              i < j => /\ top[i].count >= top[j].count
                       /\ top[i].count = top[j].count
                            => FirstSeen(fs, top[i].airline)
                                 < FirstSeen(fs, top[j].airline)
         /\ \A a \in all \ listed : \A i \in 1..Len(top) :
              FlightsWith(fs, a) <= top[i].count

\* the airport codes the flights of fs carry, null left out
CodesOf(fs) ==
  ({fs[i].fromAirportCode : i \in 1..Len(fs)}
     \cup {fs[i].toAirportCode : i \in 1..Len(fs)}) \ {Null}

\* C15: airportsVisited is the number of distinct non-null origin and
\* destination codes over the owner's flights; a flight whose airport text
\* gave no code adds nothing for that airport, its text is not counted.
C15_AirportsAreCodes ==
  StatsAnswered("c1")
  => Reply("c1").airportsVisited
       = Cardinality(CodesOf(FlightsOf(store, call["c1"].userId)))

\* C16: recentFlights holds min(5, totalFlights) flights of the owner, ordered
\* by travel date descending, and every flight of the owner that is not in the
\* list has a travel date no later than every flight in the list.
C16_RecentFlights ==
  StatsAnswered("c1")
  => LET fs  == FlightsOf(store, call["c1"].userId)
         rec == Reply("c1").recentFlights
         ids == {rec[i].id : i \in 1..Len(rec)}
     IN  /\ Reply("c1").totalFlights = Len(fs)
         /\ Len(rec) = MinOf(5, Reply("c1").totalFlights)
         /\ Cardinality(ids) = Len(rec)
         /\ \A i \in 1..Len(rec) : \E j \in 1..Len(fs) : fs[j] = rec[i]
         /\ \A i, j \in 1..Len(rec) : i < j => rec[i].date >= rec[j].date
         /\ \A j \in 1..Len(fs) : \A i \in 1..Len(rec) :
              fs[j].id \notin ids => fs[j].date <= rec[i].date

\* C16 witness: more than five flights on two dates; the list holds five of
\* them, the later date first, and leaves flights out
C16_Witness ==
  /\ StatsAnswered("c1")
  /\ Reply("c1").totalFlights > 5
  /\ Len(Reply("c1").recentFlights) = 5
  /\ Reply("c1").recentFlights[1].date > Reply("c1").recentFlights[5].date

\* the number of the month the label names
MonthNumber(label) == CHOOSE m \in 1..12 : MonthLabels[m] = label

\* the flights of fs in the month m of the year
InMonth(fs, year, m) ==
  {i \in 1..Len(fs) : YearOf(fs[i].date) = year /\ MonthOf(fs[i].date) = m}

\* C17: monthlyActivity has exactly one entry for each calendar month of the
\* current year in which the owner has a flight, with the number of the
\* owner's flights of that month, ordered by month number ascending; flights
\* of other years give no entry and no entry has count 0.
C17_MonthlyActivity ==
  StatsAnswered("c1")
  => LET fs  == FlightsOf(store, call["c1"].userId)
         now == call["c1"].year
         ma  == Reply("c1").monthlyActivity
     IN  /\ \A m \in 1..12 :
              InMonth(fs, now, m) # {}
              => \E i \in 1..Len(ma) :
                   /\ ma[i].month = MonthLabels[m]
                   /\ ma[i].count = Cardinality(InMonth(fs, now, m))
         /\ \A i \in 1..Len(ma) :
              /\ ma[i].count > 0
              /\ ma[i].count = Cardinality(InMonth(fs, now, MonthNumber(ma[i].month)))
         /\ \A i, j \in 1..Len(ma) :
              i < j => MonthNumber(ma[i].month) < MonthNumber(ma[j].month)

\* the table with the rows of all other owners taken out
OwnRows(u) == SelectSeq(store, LAMBDA f : f.userId = u)

\* a step of a statistics or list call c gives what the same step gives on
\* the table that holds the caller's rows only
StepSeesOwnRowsOnly(c) ==
  LET u   == call[c].userId
      own == OwnRows(u)
      pc  == call[c].pc
      n   == call'[c]
  IN  (call[c].kind \in {"stats", "list"} /\ n # call[c])
      => \/ n.faulted
         \/ pc = "q1" /\ n.acc.total = CountFlights(own, u)
         \/ pc = "q2" /\ n.acc.airports = AirportsVisited(build, own, u)
         \/ pc = "q3" /\ n.acc.airlines = DistinctAirlines(own, u)
         \/ pc = "q4" /\ n.acc.recent \in RecentResults(own, u)
         \/ pc = "q5" /\ n.acc.top \in TopAirlinesResults(own, u)
         \/ /\ pc = "q6"
            /\ n.res[1].monthlyActivity
                 = MonthlyActivityResult(build, own, u, n.year)
            /\ n.res[1].totalFlights = call[c].acc.total
            /\ n.res[1].airportsVisited = Cardinality(call[c].acc.airports)
            /\ n.res[1].airlinesFlown = Cardinality(call[c].acc.airlines)
            /\ n.res[1].recentFlights = call[c].acc.recent
            /\ \A i \in 1..Len(n.res[1].topAirlines) :
                 /\ n.res[1].topAirlines[i].airline = call[c].acc.top[i].airline
                 /\ n.res[1].topAirlines[i].count = call[c].acc.top[i].count
         \/ pc = "select" /\ n.res[1].flights \in GetFlightsResults(own, u)

\* C18: owner isolation.  Every flight an import call stores carries the id
\* of the caller, and what a statistics or flight-list call of an owner reads
\* is what it would read from the owner's flights alone, whatever flights the
\* other owners have or import meanwhile.
C18_OwnerIsolation ==
  [][/\ \A j \in (Len(store) + 1)..Len(store') :
          \E c \in Calls :
            /\ call[c].kind = "import"
            /\ call'[c].flights = Append(call[c].flights, store'[j].id)
            /\ store'[j].userId = call[c].userId
     /\ \A c \in Calls : StepSeesOwnRowsOnly(c)]_vars

\* C18 witness: u1 has imported flights, and the statistics of u2 show none
C18_Witness ==
  /\ ImportDone("c1")
  /\ call["c1"].userId = "u1"
  /\ AddedBy("c1") # {}
  /\ \A j \in AddedBy("c1") : store[j].userId = "u1"
  /\ StatsAnswered("c2")
  /\ call["c2"].userId = "u2"
  /\ Reply("c2").totalFlights = 0
  /\ Reply("c2").recentFlights = <<>>

C20_OneSnapshot ==
  \A s \in Calls :
    StatsAnswered(s)
    => LET v == Reply(s)
       IN  /\ \A i \in 1..Len(v.topAirlines) :
                /\ v.topAirlines[i].count <= v.totalFlights
                /\ v.topAirlines[i].percentage <= 100
           /\ Len(v.recentFlights) = MinOf(5, v.totalFlights)

\* C21: the statistics call only reads.  No step of getFlightStats changes
\* the flights table: the flights of every owner stay as they are, none is
\* created, updated or deleted.
C21_StatsReadOnly ==
  [][store' = store /\ nextId' = nextId]_vars

\* C21 witness: the statistics were answered over a table that holds flights
\* of both owners
C21_Witness ==
  /\ StatsAnswered("c1")
  /\ Reply("c1").totalFlights > 0
  /\ \E i \in 1..Len(store) : store[i].userId = "u2"

\* C22: an import only adds.  Every flight that was in the table before an
\* import call, of any owner, is still there with all its fields after every
\* step of the call, whether the call ends in success or in failure.
C22_ImportOnlyAdds ==
  [][\A c \in Calls :
       (call[c].kind = "import" /\ call'[c] # call[c])
       => \A j \in 1..Len(store) :
            (\A i \in 1..Len(call[c].flights) : call[c].flights[i] # store[j].id)
            => \E k \in 1..Len(store') : store'[k] = store[j]]_vars

\* C22 witness: a second import came after the first had answered, stored a
\* flight and then failed; the flights of the first are all still there
C22_Witness ==
  /\ ImportDone("c1")
  /\ ImportDone("c2")
  /\ "c1" \in call["c2"].after
  /\ call["c1"].flights # <<>>
  /\ Cardinality(AddedBy("c1")) = Len(call["c1"].flights)
  /\ AddedBy("c2") # {}
  /\ Reply("c2").status = 500

\* the fields of a StatsView response
StatsViewFields ==
  {"status", "totalFlights", "totalDistance", "airportsVisited",
   "airlinesFlown", "recentFlights", "topAirlines", "monthlyActivity"}

\* C23: a failing read fails the whole call.  When a query of the statistics
\* call is rejected, the caller gets one error response and no StatsView, not
\* a view with some aggregates present and others missing or defaulted; a
\* view that is returned has all its aggregates.
C23_StatsFailsWhole ==
  \A c \in Calls :
    StatsDone(c)
    => /\ Len(call[c].res) = 1
       /\ IF call[c].faulted
          THEN /\ Reply(c).status = 500
               /\ DOMAIN Reply(c) = {"status", "message"}
          ELSE /\ Reply(c).status = 200
               /\ DOMAIN Reply(c) = StatsViewFields

\* C23 witness: the count, airports, airlines, recent and top queries had
\* answered when a later query was rejected; the caller got the error only
C23_Witness ==
  /\ StatsDone("c1")
  /\ call["c1"].faulted
  /\ call["c1"].acc.total > 0
  /\ call["c1"].acc.top # <<>>
  /\ Reply("c1").status = 500

\* C24: one response per import call.  Every import call, with every awaited
\* table call returning, comes to answer its caller, and it never sends more
\* than one response: not on a missing file, a parser error, a failing row
\* or a clean end of the stream.
C24_ExactlyOneResponse ==
  \A c \in Calls :
    /\ [](Len(call[c].res) <= 1)
    /\ (call[c].kind = "import")
         ~> (call[c].pc = "done" /\ Len(call[c].res) = 1)

\* C24 witness: one call answered after a failing row, the other after a
\* parser error, each once
C24_Witness ==
  /\ ImportDone("c1")
  /\ Len(call["c1"].res) = 1
  /\ call["c1"].file.kind = "csv"
  /\ Reply("c1").status = 500
  /\ ImportDone("c2")
  /\ Len(call["c2"].res) = 1
  /\ Reply("c2").status = 400
  /\ call["c2"].file.kind = "bad"

\* the optional columns of the file and the fields they are stored in
OptionalFieldOf ==
  [col \in OptionalColumns |->
     CASE col = "Dep time" -> "departureTime"
       [] col = "Arr time" -> "arrivalTime"
       [] col = "Duration" -> "duration"
       [] col = "Aircraft" -> "aircraftType"
       [] col = "Registration" -> "registration"
       [] col = "Seat number" -> "seatNumber"
       [] col = "Seat type" -> "seatType"
       [] col = "Flight class" -> "flightClass"
       [] col = "Flight reason" -> "flightReason"
       [] OTHER -> "notes"]

\* the required text columns and their fields
RequiredFieldOf ==
  [col \in RequiredColumns \ {"Date"} |->
     CASE col = "Flight number" -> "flightNumber"
       [] col = "From" -> "fromAirport"
       [] col = "To" -> "toAirport"
       [] OTHER -> "airline"]

\* the stored flight of the i-th row of the call c
FlightOfRow(c, i) ==
  store[CHOOSE j \in 1..Len(store) : store[j].id = call[c].flights[i]]

\* C25: the fields of a stored flight.  For every row that gives a flight,
\* each optional field equals the cell's text when the cell is filled and is
\* null when the cell is absent or blank; flight number, origin, destination
\* and airline are the cells' texts unchanged.
C25_BlankIsNull ==
  \A c \in Calls : \A i \in 1..Len(call[c].flights) :
    LET row == call[c].csvData[i]
        f   == FlightOfRow(c, i)
    IN  /\ \A col \in OptionalColumns :
             f[OptionalFieldOf[col]]
               = IF row[col] \in {Undefined, Blank} THEN Null ELSE row[col]
        /\ \A col \in DOMAIN RequiredFieldOf : f[RequiredFieldOf[col]] = row[col]

\* C25 amended: each optional field is the cell's text as it stands, the
\* empty text for a blank cell, and the empty text (the column's default) for
\* an absent cell, never null; the required text fields are the cells' texts
\* unchanged.
C25_BlankIsEmptyText ==
  \A c \in Calls : \A i \in 1..Len(call[c].flights) :
    LET row == call[c].csvData[i]
        f   == FlightOfRow(c, i)
    IN  /\ \A col \in OptionalColumns :
             /\ f[OptionalFieldOf[col]]
                  = IF row[col] = Undefined THEN Blank ELSE row[col]
             /\ f[OptionalFieldOf[col]] # Null
        /\ \A col \in DOMAIN RequiredFieldOf : f[RequiredFieldOf[col]] = row[col]

\* C25 witness: a flight stored from a row without a Dep time cell, with the
\* empty text as its departure time and the airline's text unchanged
C25_Witness ==
  /\ ImportDone("c1")
  /\ Reply("c1").status = 200
  /\ Len(call["c1"].flights) = 1
  /\ call["c1"].csvData[1]["Dep time"] = Undefined
  /\ FlightOfRow("c1", 1).departureTime = Blank
  /\ FlightOfRow("c1", 1).airline = <<"Lufthansa (LH/DLH)">>

\* C26: the protected routes.  A request without an authenticated session is
\* rejected by the middleware (one 401 response) and its handler touches no
\* table; a handler that runs does so with the owner id of the user whose
\* login the session holds.
C26_OnlyLoggedInOwners ==
  \A c \in Calls :
    call[c].kind # "idle"
    => IF call[c].session = "none"
       THEN /\ call[c].pc = "done"
            /\ Reply(c).status = 401
            /\ call[c].flights = <<>>
       ELSE call[c].userId = call[c].session


\* a step in which a request of mutation m is answered and leaves the mutation
\* in status st
Settles(m, st) ==
  /\ browser'.mutation[m].inFlight < browser.mutation[m].inFlight
  /\ browser'.mutation[m].status = st

\* statement a runs before statement b in the callback es
RunsBefore(es, a, b) ==
  \E i, j \in 1..Len(es) : i < j /\ es[i] = a /\ es[j] = b

\* a successful mutation invalidates both queries, then navigates to /flights;
\* a failed one invalidates nothing and leaves the location
MutationStep(m) ==
  /\ Settles(m, "success") =>
       /\ \A key \in QueryKeys :
            RunsBefore(browser'.trace, InvalidateQueries(key),
                       SetLocation("/flights"))
       /\ QueryKeys \subseteq browser'.invalidated
       /\ browser'.location = "/flights"
  /\ Settles(m, "error") =>
       /\ browser'.invalidated = browser.invalidated
       /\ browser'.location = browser.location

C30_OneImportInFlight ==
  /\ [](browser.mutation["import"].inFlight <= 1)
  /\ [][browser'.mutation["import"].inFlight > browser.mutation["import"].inFlight =>
          /\ browser.uploadedFile # NoUpload
          /\ browser.mutation["import"].status # "pending"
          /\ browser.mutation["import"].inFlight = 0
          /\ browser'.mutation["import"].status = "pending"]_vars

\* a first import has failed and a second one of the selected file is pending
C30_Witness ==
  /\ "Import Failed" \in browser.toasts
  /\ browser.uploadedFile # NoUpload
  /\ browser.mutation["import"] = [status |-> "pending", inFlight |-> 1]

\* a logged-in user, the auth query settled, looks at one of the four pages
LoggedInView ==
  /\ browser.auth.user = LoggedIn
  /\ Router(browser) = GuardedPage(browser.location)
  /\ GuardedPage(browser.location) # ""

\* C28: with the auth query settled and a user logged in, the Dashboard,
\* Flights, Add Flight and Flight Map pages render their content and neither
\* show the "Unauthorized" toast nor send the browser to /api/login
C28_LoggedInPagesRender ==
  /\ LoggedInView =>
       /\ PageReturns(browser) = "content"
       /\ "Unauthorized" \notin browser.toasts
       /\ browser.timers = 0
  /\ browser.auth.user = LoggedIn => browser.href # "/api/login"

\* the flights the id names for the owner: the id is the flight's and the
\* flight is the owner's
OwnedBy(table, id, userId) ==
  {i \in 1..Len(table) : IdText(table[i].id) = id /\ table[i].userId = userId}

\* the rows of a table other than those at the positions S
Others(table, S) ==
  [i \in (1..Len(table)) \ S |-> table[i]]

\* C29: an update or a delete by id that the database does not reject: when the
\* id names no flight of the requesting owner the table is unchanged and the
\* answer is 404; when it does, exactly that flight is changed (answer 200) or
\* removed (answer 204) and every other flight is unchanged
C29_OwnerScopedChange ==
  [][\A c \in Calls :
       (/\ call[c].kind \in {"update", "delete"}
        /\ call[c].pc # "done"
        /\ call'[c].pc = "done"
        /\ ~call'[c].faulted)
       =>
       LET cl == call[c]
           own == OwnedBy(store, cl.param, cl.userId)
           status == call'[c].res[1].status
       IN  IF own = {}
           THEN store' = store /\ status = 404
           ELSE IF cl.kind = "update"
           THEN /\ Len(store') = Len(store)
                /\ Others(store', own) = Others(store, own)
                /\ \A i \in own : store'[i] = SetFields(store[i], cl.body)
                /\ status = 200
           ELSE /\ store' = SelectSeq(store, LAMBDA f : \A i \in own : store[i] # f)
                /\ status = 204]_vars

====
